---- MODULE Spec2Model ----
(***************************************************************************)
(* Streaming segmentation-and-accumulation pipeline of process_doc.py:     *)
(* the ChunkBuffer (SpecChunk), the merge into the shared process memory   *)
(* (SpecMerge), the two pipelines of ProcessOrchestrator, live capture and *)
(* markdown transcript (Spec), and process_chunk routines running          *)
(* concurrently on one event loop (SpecConcurrent).                        *)
(*                                                                         *)
(* Text is a sequence of one-character strings; Python's None is the empty *)
(* sequence None and a returned string s is the one-element sequence       *)
(* Some(s), so that the empty string "" and None stay different values.    *)
(***************************************************************************)
EXTENDS Integers, Sequences, FiniteSets, TLC

VARIABLES
    answer_chunker,   \* the ChunkBuffer: buffer, last_activity_ts and its configuration
    clock,            \* the value now_ts() returns
    calls,            \* log of the calls made on the ChunkBuffer by the ChunkBuffer harness
    memory,           \* ProcessOrchestrator.memory, the accumulated process model
    last_merge,       \* the last merge_models call of the merge harness: inputs and outcome
    pipeline,         \* which entry point runs: "run_capture" or "process_markdown_transcript"
    ENABLE_INTERVIEW_MODE,
    ROLE_CLASSIFIER_MODE,
    lock,             \* ProcessOrchestrator.lock, an asyncio.Lock
    recent_questions, \* ProcessOrchestrator.recent_questions, a deque(maxlen=6)
    recognizer,       \* the speech recognizer: "started", "stopped" or "unused"
    delivered,        \* the utterance texts the source has delivered, in order
    pc,               \* where each coroutine stands: Main and one handle_final_text task per utterance
    frame,            \* the locals of each coroutine
    main_phase,       \* the call of Main that process_chunk returns into
    ready,            \* the event loop's queue of callbacks ready to run
    running,          \* the coroutine the event loop is executing, or NoTask
    awaiting,         \* coroutines parked on a completion call that has not answered
    loop,             \* "open" until asyncio.run closes the event loop
    reads,            \* the memory values finalize_documents handed to its renderers
    routed,           \* the utterances routed by process_utterance, in routing order: text, role, place in delivered
    segments,         \* the segments handed to process_chunk, in emission order
    merge_steps,      \* how often the lock-protected merge step of process_chunk was entered
    force_flushes     \* how often ProcessOrchestrator.force_flush was called

chunkVars == <<answer_chunker, clock, calls>>
mergeVars == <<memory, last_merge>>
cfgVars == <<pipeline, ENABLE_INTERVIEW_MODE, ROLE_CLASSIFIER_MODE>>
ctlVars == <<pc, running, ready>>
pipeVars == <<cfgVars, lock, recent_questions, recognizer, delivered, ctlVars, frame,
              main_phase, awaiting, loop, reads, routed, segments, merge_steps,
              force_flushes>>

vars == <<chunkVars, mergeVars, pipeVars>>

-----------------------------------------------------------------------------
(* Bounds *)

MaxCalls == 3       \* calls the ChunkBuffer harness makes
MaxClock == 1       \* the harness clock runs 0..MaxClock
MaxOverlap == 1     \* overlap_tokens ranges over 0..MaxOverlap
MaxTarget == 2      \* token_target ranges over 1..MaxTarget, token_max over token_target and the next
NumFields == 2      \* how many of the 17 top-level fields of the process memory are modelled
MaxUtterances == 2  \* utterances (or transcript paragraphs) the source delivers
MaxPipeClock == 25  \* the pipeline clock stops advancing here
MaxRouted == 8      \* calls of process_utterance made by the routing harness
MaxClassified == 2  \* texts the classifier harness classifies
ScaledOverlap == 1  \* CHUNK_OVERLAP (120), scaled down to the short texts of the model
ScaledTarget == 1   \* CHUNK_TOKEN_TARGET (800), scaled down
ScaledMax == 2      \* CHUNK_TOKEN_MAX (1100), scaled down

-----------------------------------------------------------------------------
(* Python values *)

None == <<>>
Some(s) == <<s>>

\* truthiness of an Optional[str]: None and "" are falsy
Truthy(opt) == opt # None /\ opt[1] # <<>>

max(a, b) == IF a >= b THEN a ELSE b

-----------------------------------------------------------------------------
(* str.strip, str.split, str.join *)

IsSpace(c) == c = " "

RECURSIVE lstrip(_)
lstrip(s) ==
    IF s = <<>> THEN <<>>
    ELSE IF IsSpace(Head(s)) THEN lstrip(Tail(s)) ELSE s

RECURSIVE rstrip(_)
rstrip(s) ==
    IF s = <<>> THEN <<>>
    ELSE IF IsSpace(s[Len(s)]) THEN rstrip(SubSeq(s, 1, Len(s) - 1)) ELSE s

strip(s) == rstrip(lstrip(s))

\* s.split(): maximal runs of non-whitespace characters, in order
RECURSIVE SplitFrom(_, _, _)
SplitFrom(s, word, words) ==
    IF s = <<>>
    THEN IF word = <<>> THEN words ELSE Append(words, word)
    ELSE IF IsSpace(Head(s))
         THEN SplitFrom(Tail(s), <<>>, IF word = <<>> THEN words ELSE Append(words, word))
         ELSE SplitFrom(Tail(s), Append(word, Head(s)), words)

split(s) == SplitFrom(s, <<>>, <<>>)

\* " ".join(parts)
RECURSIVE join(_)
join(parts) ==
    IF parts = <<>> THEN <<>>
    ELSE IF Len(parts) = 1 THEN parts[1]
    ELSE parts[1] \o <<" ">> \o join(Tail(parts))

-----------------------------------------------------------------------------
(* approx_token_count *)

\* the word count taken as the token count (the 0.75 factor left out)
approx_token_count_words(text) == Len(split(strip(text)))

approx_token_count(text) == (3 * Len(split(strip(text)))) \div 4

-----------------------------------------------------------------------------
(* ChunkBuffer: each method maps the object to [cb: the object after the   *)
(* call, ret: the returned Optional[str]]                                  *)

\* a hard flush that keeps the last pending segment
force_flush_chunk_keep_last(cb) ==
    IF cb.buffer = <<>>
    THEN [cb |-> cb, ret |-> None]
    ELSE [cb |-> [cb EXCEPT !.buffer = <<cb.buffer[Len(cb.buffer)]>>],
          ret |-> Some(strip(join(cb.buffer)))]

force_flush_chunk(cb) ==
    IF cb.buffer = <<>>
    THEN [cb |-> cb, ret |-> None]
    ELSE [cb |-> [cb EXCEPT !.buffer = <<>>],
          ret |-> Some(strip(join(cb.buffer)))]

\* a soft flush that forgets to empty the buffer when everything is emitted
flush_chunk_no_clear(cb) ==
    IF cb.buffer = <<>>
    THEN [cb |-> cb, ret |-> None]
    ELSE LET full_text == strip(join(cb.buffer))
             words == split(full_text)
         IN  IF Len(words) <= cb.overlap_tokens
             THEN [cb |-> cb, ret |-> Some(full_text)]
             ELSE LET boundary == max(0, Len(words) - cb.overlap_tokens)
                      chunk_text == strip(join(SubSeq(words, 1, boundary)))
                      overlap_text == strip(join(SubSeq(words, boundary + 1, Len(words))))
                  IN  [cb |-> [cb EXCEPT !.buffer = IF overlap_text # <<>>
                                                    THEN <<overlap_text>> ELSE <<>>],
                       ret |-> Some(chunk_text)]

\* a soft flush that emits the whole pending text and keeps a copy of the tail
flush_chunk_keep_all(cb) ==
    IF cb.buffer = <<>>
    THEN [cb |-> cb, ret |-> None]
    ELSE LET full_text == strip(join(cb.buffer))
             words == split(full_text)
             boundary == max(0, Len(words) - cb.overlap_tokens)
             overlap_text == strip(join(SubSeq(words, boundary + 1, Len(words))))
         IN  [cb |-> [cb EXCEPT !.buffer = IF overlap_text # <<>>
                                           THEN <<overlap_text>> ELSE <<>>],
              ret |-> Some(full_text)]

flush_chunk(cb) ==
    IF cb.buffer = <<>>
    THEN [cb |-> cb, ret |-> None]
    ELSE LET full_text == strip(join(cb.buffer))
             words == split(full_text)
         IN  IF Len(words) <= cb.overlap_tokens
             THEN [cb |-> [cb EXCEPT !.buffer = <<>>], ret |-> Some(full_text)]
             ELSE LET boundary == max(0, Len(words) - cb.overlap_tokens)
                      chunk_text == strip(join(SubSeq(words, 1, boundary)))
                      overlap_text == strip(join(SubSeq(words, boundary + 1, Len(words))))
                  IN  [cb |-> [cb EXCEPT !.buffer = IF overlap_text # <<>>
                                                    THEN <<overlap_text>> ELSE <<>>],
                       ret |-> Some(chunk_text)]

\* an add that counts the tokens of the new text alone
add_counts_new_text(cb, text, now) ==
    LET appended == [cb EXCEPT !.buffer = Append(cb.buffer, strip(text)),
                               !.last_activity_ts = now]
        tokens == approx_token_count(text)
    IN  IF tokens >= cb.token_target THEN flush_chunk(appended)
        ELSE IF tokens >= cb.token_max THEN force_flush_chunk(appended)
        ELSE [cb |-> appended, ret |-> None]

add(cb, text, now) ==
    LET appended == [cb EXCEPT !.buffer = Append(cb.buffer, strip(text)),
                               !.last_activity_ts = now]
        tokens == approx_token_count(join(appended.buffer))
    IN  IF tokens >= cb.token_target THEN flush_chunk(appended)
        ELSE IF tokens >= cb.token_max THEN force_flush_chunk(appended)
        ELSE [cb |-> appended, ret |-> None]

\* an idle flush that leaves alone a pending text of at most overlap_tokens words
flush_if_idle_above_overlap(cb, idle_seconds, now) ==
    IF /\ now - cb.last_activity_ts > idle_seconds
       /\ Len(split(join(cb.buffer))) > cb.overlap_tokens
    THEN flush_chunk(cb)
    ELSE [cb |-> cb, ret |-> None]

\* an idle flush that already fires when exactly idle_seconds have passed
flush_if_idle_at_threshold(cb, idle_seconds, now) ==
    IF now - cb.last_activity_ts >= idle_seconds /\ cb.buffer # <<>>
    THEN flush_chunk(cb)
    ELSE [cb |-> cb, ret |-> None]

flush_if_idle(cb, idle_seconds, now) ==
    IF now - cb.last_activity_ts > idle_seconds /\ cb.buffer # <<>>
    THEN flush_chunk(cb)
    ELSE [cb |-> cb, ret |-> None]

-----------------------------------------------------------------------------
(* Global process memory schema *)

\* the top-level keys of empty_process_memory, in source order
MemoryKeys ==
    << "title", "overview", "actors", "inputs", "outputs", "preconditions",
       "postconditions", "main_flow", "alternate_paths", "exceptions",
       "business_rules", "tools_systems", "metrics_slas", "risks_controls",
       "glossary", "open_questions", "assumptions" >>

SchemaKeys == { MemoryKeys[i] : i \in 1..NumFields }

\* the value empty_process_memory gives a key: None, "" or []
EmptyValue(k) == IF k = "title" THEN "None" ELSE IF k = "overview" THEN "''" ELSE "[]"

empty_process_memory == [k \in SchemaKeys |-> EmptyValue(k)]

-----------------------------------------------------------------------------
(* llm_json_completion: what the chat completion call gives back, and what *)
(* the helper makes of it                                                  *)

EmptyDict == <<>>

\* a key the schema does not have, which a response may carry
ExtraKey == "commentary"

\* the responses of the completion call, given the JSON objects a well-formed
\* answer may hold: the call raises; the message has no content; the content
\* is a JSON object, bare, inside a ``` fence or surrounded by prose; the
\* content is JSON but not an object (a list, a string, null); the content is
\* not JSON and holds no {...} span that parses
LlmResponses(objects) ==
    { [kind |-> k, obj |-> EmptyDict] :
        k \in {"raises", "no_content", "json_other", "garbage"} }
    \cup { [kind |-> k, obj |-> o] :
        k \in {"json_object", "fenced_json_object", "embedded_json_object"},
        o \in objects }

\* the outcome of llm_json_completion: status "raised" (the exception of the
\* call propagates), "dict" (val is the parsed object, {} when nothing parses)
\* or "other" (json.loads gave a value that is not a dict)
llm_json_completion(resp) ==
    IF resp.kind = "raises" THEN [status |-> "raised", val |-> EmptyDict]
    ELSE IF resp.kind = "no_content" THEN [status |-> "dict", val |-> EmptyDict]
    ELSE IF resp.kind \in {"json_object", "fenced_json_object"}
         THEN [status |-> "dict", val |-> resp.obj]
    ELSE IF resp.kind = "json_other" THEN [status |-> "other", val |-> EmptyDict]
    ELSE IF resp.kind = "embedded_json_object" THEN [status |-> "dict", val |-> resp.obj]
    ELSE [status |-> "dict", val |-> EmptyDict]

-----------------------------------------------------------------------------
(* merge_models *)

\* the values a merged model may give a key
MergedValues(k) == {EmptyValue(k), "v1"}

\* the JSON objects the merge completion may answer with: any subset of the
\* schema keys, with or without a key outside the schema
MergedObjects ==
    UNION { [keys -> {"None", "''", "[]", "v1"}] :
              keys \in SUBSET (SchemaKeys \cup {ExtraKey}) }

MergeResponses ==
    { r \in LlmResponses(MergedObjects) :
        \A k \in DOMAIN r.obj \cap SchemaKeys : r.obj[k] \in MergedValues(k) }

\* dict.get(k, default)
DictGet(d, k, default) == IF k \in DOMAIN d THEN d[k] ELSE default

\* a merge that lets every key of the merged object through (base.update(merged))
merge_models_update_all(a, merged) ==
    IF merged.status = "dict"
    THEN [status |-> "ok",
          val |-> [k \in SchemaKeys \cup DOMAIN merged.val |->
                      IF k \in DOMAIN merged.val THEN merged.val[k] ELSE EmptyValue(k)]]
    ELSE [status |-> "raised", val |-> a]

\* merge_models(a, b), given the outcome of its llm_json_completion call:
\* status "ok" and the new model, or "raised" (the call raised, or merged.get
\* raised because merged is not a dict)
merge_models(a, merged) ==
    IF merged.status = "dict"
    THEN LET base == empty_process_memory
         IN  [status |-> "ok",
              val |-> [k \in DOMAIN base |-> DictGet(merged.val, k, base[k])]]
    ELSE [status |-> "raised", val |-> a]

-----------------------------------------------------------------------------
(* Q/A classification *)

UpperCase == <<"A", "B", "C", "D", "E", "F", "G", "H", "I", "J", "K", "L", "M",
               "N", "O", "P", "Q", "R", "S", "T", "U", "V", "W", "X", "Y", "Z">>
LowerCase == <<"a", "b", "c", "d", "e", "f", "g", "h", "i", "j", "k", "l", "m",
               "n", "o", "p", "q", "r", "s", "t", "u", "v", "w", "x", "y", "z">>

\* str.lower, character by character
LowerChar(c) ==
    IF \E i \in 1..26 : UpperCase[i] = c
    THEN LowerCase[CHOOSE i \in 1..26 : UpperCase[i] = c]
    ELSE c

lower(s) == [i \in 1..Len(s) |-> LowerChar(s[i])]

\* str.startswith(prefix), str.startswith(tuple of prefixes), str.endswith
startswith(s, prefix) ==
    Len(s) >= Len(prefix) /\ SubSeq(s, 1, Len(prefix)) = prefix

startswith_any(s, prefixes) ==
    \E i \in 1..Len(prefixes) : startswith(s, prefixes[i])

endswith(s, suffix) ==
    Len(s) >= Len(suffix) /\ SubSeq(s, Len(s) - Len(suffix) + 1, Len(s)) = suffix

q_starts ==
    << <<"h", "o", "w", " ">>, <<"w", "h", "a", "t", " ">>,
       <<"w", "h", "e", "n", " ">>, <<"w", "h", "e", "r", "e", " ">>,
       <<"w", "h", "y", " ">>, <<"w", "h", "o", " ">>,
       <<"w", "h", "i", "c", "h", " ">>, <<"c", "a", "n", " ">>,
       <<"c", "o", "u", "l", "d", " ">>, <<"w", "o", "u", "l", "d", " ">>,
       <<"d", "o", " ">>, <<"d", "o", "e", "s", " ">>,
       <<"d", "i", "d", " ">>, <<"p", "l", "e", "a", "s", "e", " ", "e", "x", "p", "l", "a", "i", "n">>,
       <<"w", "a", "l", "k", " ", "m", "e", " ", "t", "h", "r", "o", "u", "g", "h">> >>

request_starts ==
    << <<"d", "e", "s", "c", "r", "i", "b", "e", " ">>, <<"o", "u", "t", "l", "i", "n", "e", " ">>,
       <<"e", "x", "p", "l", "a", "i", "n", " ">>, <<"d", "e", "t", "a", "i", "l", " ">>,
       <<"t", "e", "l", "l", " ", "m", "e", " ">> >>

heuristic_role_classify(text) ==
    LET t == lower(strip(text))
    IN  IF t = <<>> THEN "ANSWER"
        ELSE IF endswith(t, <<"?">>) THEN "QUESTION"
        ELSE IF startswith_any(t, q_starts) THEN "QUESTION"
        ELSE IF startswith_any(t, request_starts) THEN "QUESTION"
        ELSE "ANSWER"

\* the values the "role" key of a classification answer may hold: JSON
\* strings, null, and a number
RoleValues ==
    { [type |-> "string", v |-> s] : s \in {"QUESTION", "question", "ANSWER", "unsure", ""} }
    \cup { [type |-> "null", v |-> ""], [type |-> "number", v |-> "1"] }

\* the JSON objects a classification answer may be: with or without "role"
RoleObjects == UNION { [keys -> RoleValues] : keys \in SUBSET {"role"} }

ClassifyResponses == LlmResponses(RoleObjects)

\* str.upper on the role strings
upper(s) == IF s = "question" THEN "QUESTION" ELSE s

\* the part of classify_role after its llm_json_completion call: the role,
\* or "raised" when the call raised, res has no .get (not a dict) or the
\* role has no .upper (not a string)
classify_role_llm(res) ==
    IF res.status # "dict" THEN "raised"
    ELSE LET got == DictGet(res.val, "role", [type |-> "null", v |-> ""])
             falsy == got.type = "null" \/ (got.type = "string" /\ got.v = "")
             role == IF falsy THEN [type |-> "string", v |-> "ANSWER"] ELSE got
         IN  IF role.type # "string" THEN "raised"
             ELSE IF upper(role.v) = "QUESTION" THEN "QUESTION" ELSE "ANSWER"

\* the JSON objects an extraction answer may be: {} or a fragment
ExtractObjects == { EmptyDict, [k \in {"process_name"} |-> "v1"] }

ExtractResponses == LlmResponses(ExtractObjects)

-----------------------------------------------------------------------------
(* ProcessOrchestrator and the event loop: state *)

IDLE_FLUSH_SECONDS == 20
SLEEP_SECONDS == 5
RECENT_QUESTIONS_MAXLEN == 6
RECENT_QUESTIONS_IN_PROMPT == 3

Main == 0        \* the coroutine asyncio.run runs: run_capture or process_markdown_transcript
NoTask == -1     \* the event loop runs no coroutine
StopLoop == -2   \* the done-callback of Main in the ready queue: it stops the loop

HandlerTasks == 1..MaxUtterances
Coroutines == {Main} \cup HandlerTasks

\* an append that never evicts
deque_append_unbounded(dq, x) == Append(dq, x)

\* deque(maxlen=6).append
deque_append(dq, x) ==
    IF Len(dq) >= RECENT_QUESTIONS_MAXLEN THEN Append(Tail(dq), x) ELSE Append(dq, x)

\* "; ".join(parts)
RECURSIVE join_semicolon(_)
join_semicolon(parts) ==
    IF parts = <<>> THEN <<>>
    ELSE IF Len(parts) = 1 THEN parts[1]
    ELSE parts[1] \o <<";", " ">> \o join_semicolon(Tail(parts))

NoRecentQuestions == <<"N", "o", " ", "r", "e", "c", "e", "n", "t", " ", "q", "u", "e", "s", "t", "i", "o", "n", "s">>

\* the first three entries of the window taken instead of the last three
recent_q_text_oldest(dq) ==
    IF dq # <<>>
    THEN join_semicolon(SubSeq(dq, 1, IF Len(dq) < RECENT_QUESTIONS_IN_PROMPT
                                      THEN Len(dq) ELSE RECENT_QUESTIONS_IN_PROMPT))
    ELSE NoRecentQuestions

\* recent_q_text of process_chunk
recent_q_text(dq) ==
    IF dq # <<>>
    THEN join_semicolon(SubSeq(dq, max(1, Len(dq) - RECENT_QUESTIONS_IN_PROMPT + 1), Len(dq)))
    ELSE NoRecentQuestions

NoResult == [status |-> "none", val |-> EmptyDict]

\* the locals of a coroutine: text of handle_final_text, segment, recent_q_text
\* and extracted of process_chunk, and a, the model handed to merge_models
FrameNew == [text |-> <<>>, segment |-> <<>>, recent_q_text |-> <<>>,
             extracted |-> NoResult, a |-> empty_process_memory]

\* asyncio.Lock(): not held, nobody waiting
LockNew == [locked |-> FALSE, waiters |-> <<>>]

\* a release that leaves the lock held
lock_release_kept(l) == l

\* asyncio.Lock.release, run by __aexit__ of `async with self.lock`
lock_release(l) == [l EXCEPT !.locked = FALSE]

\* a release that wakes nobody
lock_wakes_nobody(l) == <<>>

\* the waiter that release wakes: the first in line goes on the ready queue
lock_wakes(l) == IF l.waiters # <<>> THEN <<Head(l.waiters)>> ELSE <<>>

\* an acquire that never looks at the lock
lock_is_free_always(l) == TRUE

\* the fast path of asyncio.Lock.acquire: not held and nobody waiting
lock_is_free(l) == ~l.locked /\ l.waiters = <<>>

\* a callback put at the front of the ready queue
ready_put_front(q, t) == <<t>> \o q

\* loop.call_soon, by which asyncio.create_task schedules the first step of
\* its task: the callback goes to the end of the ready queue
ready_put(q, t) == Append(q, t)

\* a process_utterance that hands every utterance to the ChunkBuffer
process_utterance_add_all(text, role) ==
    LET r == add(answer_chunker, text, clock)
    IN  [rq |-> IF role = "QUESTION"
                THEN deque_append(recent_questions, strip(text))
                ELSE recent_questions,
         cb |-> r.cb, chunk |-> r.ret]

\* process_utterance up to the call of process_chunk: the deque, the
\* ChunkBuffer and the chunk that add returned
process_utterance(text, role) ==
    IF role = "QUESTION"
    THEN [rq |-> deque_append(recent_questions, strip(text)),
          cb |-> answer_chunker, chunk |-> None]
    ELSE IF role = "ANSWER"
    THEN LET r == add(answer_chunker, text, clock)
         IN  [rq |-> recent_questions, cb |-> r.cb, chunk |-> r.ret]
    ELSE [rq |-> recent_questions, cb |-> answer_chunker, chunk |-> None]

\* the pipeline at rest, for the harnesses that do not run it
PipeIdle ==
    /\ pipeline = "none"
    /\ ENABLE_INTERVIEW_MODE = FALSE
    /\ ROLE_CLASSIFIER_MODE = "heuristic"
    /\ lock = LockNew
    /\ recent_questions = <<>>
    /\ recognizer = "unused"
    /\ delivered = <<>>
    /\ pc = [t \in Coroutines |-> "unborn"]
    /\ frame = [t \in Coroutines |-> FrameNew]
    /\ main_phase = "none"
    /\ ready = <<>>
    /\ running = NoTask
    /\ awaiting = {}
    /\ loop = "closed"
    /\ reads = {}
    /\ routed = <<>>
    /\ segments = <<>>
    /\ merge_steps = 0
    /\ force_flushes = 0

-----------------------------------------------------------------------------
(* ChunkBuffer harness: a caller that constructs one ChunkBuffer and calls  *)
(* its methods in any order while the clock advances                       *)

\* the texts handed to add: empty, blank, padded, one word, several words
Texts ==
    { <<>>, <<"a">>, <<"b">>, <<" ", "a", " ">>,
      <<"a", " ", "b">>, <<"b", " ", " ", "a">> }

\* the idle_seconds handed to flush_if_idle
IdleSeconds == {0, 1}

\* ChunkBuffer(overlap_tokens, token_target, token_max) as constructed at time 0
ChunkBufferNew(overlap, target, tmax, now) ==
    [overlap_tokens |-> overlap, token_target |-> target, token_max |-> tmax,
     last_activity_ts |-> now, buffer |-> <<>>]

\* the merge harness at rest
NoMerge == [done |-> FALSE, a |-> empty_process_memory, merged |-> EmptyDict, raised |-> FALSE]

MergeIdle ==
    /\ memory = empty_process_memory
    /\ last_merge = NoMerge

InitChunk ==
    /\ clock = 0
    /\ calls = <<>>
    /\ MergeIdle
    /\ PipeIdle
    /\ \E overlap \in 0..MaxOverlap, target \in 1..MaxTarget :
         \E tmax \in {target, target + 1} :
           answer_chunker = ChunkBufferNew(overlap, target, tmax, 0)

Logged(op, text, idle, res) ==
    Append(calls, [op |-> op, text |-> text, idle_seconds |-> idle, now |-> clock,
                   before |-> answer_chunker, after |-> res.cb, ret |-> res.ret])

CallAdd(text) ==
    /\ Len(calls) < MaxCalls
    /\ LET res == add(answer_chunker, text, clock)
       IN  /\ answer_chunker' = res.cb
           /\ calls' = Logged("add", text, 0, res)
    /\ UNCHANGED <<clock, mergeVars, pipeVars>>

CallFlushIfIdle(idle_seconds) ==
    /\ Len(calls) < MaxCalls
    /\ LET res == flush_if_idle(answer_chunker, idle_seconds, clock)
       IN  /\ answer_chunker' = res.cb
           /\ calls' = Logged("flush_if_idle", <<>>, idle_seconds, res)
    /\ UNCHANGED <<clock, mergeVars, pipeVars>>

CallFlushChunk ==
    /\ Len(calls) < MaxCalls
    /\ LET res == flush_chunk(answer_chunker)
       IN  /\ answer_chunker' = res.cb
           /\ calls' = Logged("flush_chunk", <<>>, 0, res)
    /\ UNCHANGED <<clock, mergeVars, pipeVars>>

CallForceFlushChunk ==
    /\ Len(calls) < MaxCalls
    /\ LET res == force_flush_chunk(answer_chunker)
       IN  /\ answer_chunker' = res.cb
           /\ calls' = Logged("force_flush_chunk", <<>>, 0, res)
    /\ UNCHANGED <<clock, mergeVars, pipeVars>>

Tick ==
    /\ clock < MaxClock
    /\ clock' = clock + 1
    /\ UNCHANGED <<answer_chunker, calls, mergeVars, pipeVars>>

NextChunk ==
    \/ \E text \in Texts : CallAdd(text)
    \/ \E idle_seconds \in IdleSeconds : CallFlushIfIdle(idle_seconds)
    \/ CallFlushChunk
    \/ CallForceFlushChunk
    \/ Tick

SpecChunk == InitChunk /\ [][NextChunk]_vars

-----------------------------------------------------------------------------
(* Merge harness: merge_models applied again and again to the memory, as   *)
(* `self.memory = await merge_models(self.memory, extracted)` does         *)

\* the ChunkBuffer harness at rest
ChunkIdle ==
    /\ clock = 0
    /\ calls = <<>>
    /\ answer_chunker = ChunkBufferNew(0, 1, 1, 0)

InitMerge ==
    /\ MergeIdle
    /\ ChunkIdle
    /\ PipeIdle

MergeCall(resp) ==
    LET merged == llm_json_completion(resp)
        res == merge_models(memory, merged)
    IN  /\ memory' = IF res.status = "ok" THEN res.val ELSE memory
        /\ last_merge' = [done |-> TRUE, a |-> memory, merged |-> merged.val,
                          raised |-> res.status = "raised"]
        /\ UNCHANGED <<chunkVars, pipeVars>>

NextMerge == \E resp \in MergeResponses : MergeCall(resp)

SpecMerge == InitMerge /\ [][NextMerge]_vars

\* C3: every top-level field that the output of a merge omits (all of them,
\* when the output is malformed) has in the new memory exactly the value it
\* had in the memory before that merge.
C3_OmittedFieldsKeepPriorValue ==
    (last_merge.done /\ ~last_merge.raised) =>
        \A k \in SchemaKeys \ DOMAIN last_merge.merged : memory[k] = last_merge.a[k]

\* C4: after any sequence of merges whose outputs omit fields or add unknown
\* fields, the field names of the memory are exactly those of the empty model.
C4_SchemaComplete == DOMAIN memory = DOMAIN empty_process_memory

\* C4 witness: a merge whose output omitted a field and carried an unknown one went through
C4_Witness ==
    /\ last_merge.done /\ ~last_merge.raised
    /\ ExtraKey \in DOMAIN last_merge.merged
    /\ SchemaKeys \ DOMAIN last_merge.merged # {}
    /\ memory # empty_process_memory

-----------------------------------------------------------------------------
(* The pipelines: run_capture and process_markdown_transcript, run by      *)
(* asyncio.run on one event loop.                                          *)
(*                                                                         *)
(* The completion calls are blocking calls of the synchronous AzureOpenAI  *)
(* client inside `async def` helpers: awaiting such a helper does not hand *)
(* control back to the event loop, so a coroutine standing at "classify",  *)
(* "extract", "merge" or "finalize_md" keeps the loop (running) until the  *)
(* call answers.  What still happens meanwhile is what other threads and   *)
(* signals do: the recognizer's thread delivers utterances (Recognized)    *)
(* and Ctrl+C raises KeyboardInterrupt in the code the loop's thread runs. *)
(* `recognized` hands each utterance to asyncio.create_task: the new task  *)
(* goes on the loop's ready queue, unless create_task refuses to work      *)
(* outside the loop's thread.                                              *)

\* the utterance texts of the model: a two-word answer and a one-word question
UtteranceTexts == { <<"b", " ", "c">>, <<"a", "?">> }

\* what sleep(5) may take: five seconds, or longer when the loop was kept busy
SleepDurations == {SLEEP_SECONDS, IDLE_FLUSH_SECONDS + SLEEP_SECONDS}

LivePcs == {"ready", "classify", "extract", "lock_wait", "merge"}

Init ==
    /\ clock = 0
    /\ calls = <<>>
    /\ MergeIdle
    /\ answer_chunker = ChunkBufferNew(ScaledOverlap, ScaledTarget, ScaledMax, 0)
    /\ pipeline \in {"run_capture", "process_markdown_transcript"}
    /\ ENABLE_INTERVIEW_MODE \in BOOLEAN
    /\ ROLE_CLASSIFIER_MODE \in {"heuristic", "llm"}
    /\ (~ENABLE_INTERVIEW_MODE) => ROLE_CLASSIFIER_MODE = "heuristic"
    /\ lock = LockNew
    /\ recent_questions = <<>>
    /\ recognizer = IF pipeline = "run_capture" THEN "started" ELSE "unused"
    /\ delivered = <<>>
    /\ pc = [t \in Coroutines |->
               IF t # Main THEN "unborn"
               ELSE IF pipeline = "run_capture" THEN "sleep" ELSE "next_paragraph"]
    /\ frame = [t \in Coroutines |-> FrameNew]
    /\ main_phase = IF pipeline = "run_capture" THEN "idle_check" ELSE "paragraph"
    /\ ready = <<>>
    /\ running = IF pipeline = "run_capture" THEN NoTask ELSE Main
    /\ awaiting = {}
    /\ loop = "open"
    /\ reads = {}
    /\ routed = <<>>
    /\ segments = <<>>
    /\ merge_steps = 0
    /\ force_flushes = 0

\* coroutine t moves to newpc; the loop then runs `run` and has queue `rdy`
Ctl(t, newpc, run, rdy) ==
    /\ pc' = [pc EXCEPT ![t] = newpc]
    /\ running' = run
    /\ ready' = rdy

\* the locals of coroutine t are gone once its call has returned or raised
Dropped(t) == [frame EXCEPT ![t] = FrameNew]

\* the outermost call of coroutine t returns: a handler task is done; Main
\* goes on after the await it was in
Continue(t, rdy) ==
    /\ frame' = Dropped(t)
    /\ IF t # Main THEN Ctl(t, "done", NoTask, rdy)
       ELSE IF main_phase = "paragraph" THEN Ctl(Main, "next_paragraph", Main, rdy)
       ELSE IF main_phase = "idle_check" THEN Ctl(Main, "sleep", NoTask, rdy)
       ELSE Ctl(Main, "finalize", Main, rdy)

\* an exception leaves coroutine t: a handler task ends with it; in Main it
\* leaves run_capture / process_markdown_transcript and asyncio.run winds up
Raise(t, rdy) ==
    /\ frame' = Dropped(t)
    /\ IF t # Main THEN Ctl(t, "failed", NoTask, rdy)
       ELSE Ctl(Main, "crashed", NoTask, Append(rdy, StopLoop))

\* process_chunk(segment), up to its blocking extraction call
BeginChunk(t, segment, rdy) ==
    /\ frame' = [frame EXCEPT ![t].segment = segment,
                              ![t].recent_q_text = recent_q_text(recent_questions),
                              ![t].extracted = NoResult]
    /\ segments' = Append(segments, segment)
    /\ Ctl(t, "extract", t, rdy)

\* process_utterance(text, role) run by coroutine t
Route(t, text, role, rdy) ==
    LET eff == process_utterance(text, role)
    IN  /\ recent_questions' = eff.rq
        /\ answer_chunker' = eff.cb
        /\ routed' = Append(routed, [text |-> text, role |-> role,
                                     utterance |-> IF t = Main THEN Len(delivered) ELSE t])
        /\ IF Truthy(eff.chunk)
           THEN BeginChunk(t, eff.chunk[1], rdy)
           ELSE /\ Continue(t, rdy)
                /\ UNCHANGED segments

\* handle_final_text / the loop body of process_markdown_transcript, up to
\* the first blocking call
Classify(t, text, rdy) ==
    IF ~ENABLE_INTERVIEW_MODE THEN Route(t, text, "ANSWER", rdy)
    ELSE IF ROLE_CLASSIFIER_MODE = "heuristic"
    THEN Route(t, text, heuristic_role_classify(text), rdy)
    ELSE /\ Ctl(t, "classify", t, rdy)
         /\ UNCHANGED <<recent_questions, answer_chunker, routed, frame, segments>>

\* the recognizer's thread calls recognized(evt) with recognized speech;
\* asyncio.create_task either schedules handle_final_text on the loop or
\* raises RuntimeError (no running event loop in the calling thread), and
\* then the utterance is dropped
Recognized(text, created) ==
    /\ pipeline = "run_capture" /\ recognizer = "started" /\ loop = "open"
    /\ Len(delivered) < MaxUtterances
    /\ LET t == Len(delivered) + 1
       IN  /\ delivered' = Append(delivered, text)
           /\ pc' = [pc EXCEPT ![t] = IF created THEN "ready" ELSE "dropped"]
           /\ frame' = IF created THEN [frame EXCEPT ![t].text = text] ELSE frame
           /\ ready' = IF created THEN ready_put(ready, t) ELSE ready
    /\ UNCHANGED <<chunkVars, mergeVars, cfgVars, lock, recent_questions, recognizer,
                   running, main_phase, awaiting, loop, reads, routed, segments,
                   merge_steps, force_flushes>>

\* the event loop starts the handle_final_text task at the head of its queue
LoopRunHandler(t) ==
    /\ loop = "open" /\ running = NoTask
    /\ ready # <<>> /\ Head(ready) = t /\ t \in HandlerTasks /\ pc[t] = "ready"
    /\ Classify(t, frame[t].text, Tail(ready))
    /\ UNCHANGED <<clock, calls, mergeVars, cfgVars, lock, recognizer, delivered,
                   main_phase, awaiting, loop, reads, merge_steps, force_flushes>>

\* the classification call of classify_role answers
ClassifyReturn(t, resp) ==
    /\ loop = "open" /\ running = t /\ t \notin awaiting /\ pc[t] = "classify"
    /\ LET role == classify_role_llm(llm_json_completion(resp))
       IN  IF role = "raised"
           THEN /\ Raise(t, ready)
                /\ UNCHANGED <<recent_questions, answer_chunker, routed, segments>>
           ELSE Route(t, frame[t].text, role, ready)
    /\ UNCHANGED <<clock, calls, mergeVars, cfgVars, lock, recognizer, delivered,
                   main_phase, awaiting, loop, reads, merge_steps, force_flushes>>

\* the extraction call of process_chunk answers, and `async with self.lock`
\* takes the lock or queues up for it
ExtractReturn(t, resp) ==
    /\ loop = "open" /\ running = t /\ t \notin awaiting /\ pc[t] = "extract"
    /\ LET extracted == llm_json_completion(resp)
       IN  IF extracted.status = "raised"
           THEN /\ Raise(t, ready)
                /\ UNCHANGED <<lock, merge_steps>>
           ELSE IF lock_is_free(lock)
           THEN /\ lock' = [lock EXCEPT !.locked = TRUE]
                /\ frame' = [frame EXCEPT ![t].extracted = extracted, ![t].a = memory]
                /\ merge_steps' = merge_steps + 1
                /\ Ctl(t, "merge", t, ready)
           ELSE /\ lock' = [lock EXCEPT !.waiters = Append(@, t)]
                /\ frame' = [frame EXCEPT ![t].extracted = extracted]
                /\ Ctl(t, "lock_wait", NoTask, ready)
                /\ UNCHANGED merge_steps
    /\ UNCHANGED <<chunkVars, mergeVars, cfgVars, recent_questions, recognizer, delivered,
                   main_phase, awaiting, loop, reads, routed, segments, force_flushes>>

\* the merge call of merge_models answers inside the critical section:
\* the memory is replaced, the lock released and process_chunk returns
MergeReturn(t, resp) ==
    /\ loop = "open" /\ running = t /\ t \notin awaiting /\ pc[t] = "merge"
    /\ LET res == merge_models(frame[t].a, llm_json_completion(resp))
           rdy == ready \o lock_wakes(lock)
       IN  /\ lock' = lock_release(lock)
           /\ IF res.status = "ok"
              THEN /\ memory' = res.val
                   /\ Continue(t, rdy)
              ELSE /\ Raise(t, rdy)
                   /\ UNCHANGED memory
    /\ UNCHANGED <<chunkVars, last_merge, cfgVars, recent_questions, recognizer, delivered,
                   main_phase, awaiting, loop, reads, routed, segments, merge_steps,
                   force_flushes>>

\* sleep(5) is over: the loop puts Main back on its queue
SleepElapsed(d) ==
    /\ loop = "open" /\ running = NoTask /\ pc[Main] = "sleep"
    /\ clock + d <= MaxPipeClock
    /\ clock' = clock + d
    /\ pc' = [pc EXCEPT ![Main] = "woken"]
    /\ ready' = Append(ready, Main)
    /\ UNCHANGED <<answer_chunker, calls, mergeVars, cfgVars, lock, recent_questions,
                   recognizer, delivered, running, frame, main_phase, awaiting, loop,
                   reads, routed, segments, merge_steps, force_flushes>>

\* the event loop resumes Main after its sleep: idle_check is next
LoopRunMain ==
    /\ loop = "open" /\ running = NoTask
    /\ ready # <<>> /\ Head(ready) = Main /\ pc[Main] = "woken"
    /\ Ctl(Main, "idle_check", Main, Tail(ready))
    /\ main_phase' = "idle_check"
    /\ UNCHANGED <<chunkVars, mergeVars, cfgVars, lock, recent_questions, recognizer,
                   delivered, frame, awaiting, loop, reads, routed, segments,
                   merge_steps, force_flushes>>

\* ProcessOrchestrator.idle_check
IdleCheck ==
    /\ loop = "open" /\ running = Main /\ pc[Main] = "idle_check"
    /\ LET res == flush_if_idle(answer_chunker, IDLE_FLUSH_SECONDS, clock)
       IN  /\ answer_chunker' = res.cb
           /\ IF Truthy(res.ret)
              THEN BeginChunk(Main, res.ret[1], ready)
              ELSE /\ Continue(Main, ready)
                   /\ UNCHANGED segments
    /\ UNCHANGED <<clock, calls, mergeVars, cfgVars, lock, recent_questions, recognizer,
                   delivered, main_phase, awaiting, loop, reads, routed, merge_steps,
                   force_flushes>>

\* Ctrl+C while Main executes idle_check (its own code or a blocking call in
\* it): KeyboardInterrupt is raised there, unwinds process_chunk (leaving the
\* `async with` releases the lock) and is caught by `except KeyboardInterrupt`
KeyboardInterruptCaught ==
    /\ pipeline = "run_capture" /\ loop = "open"
    /\ running = Main /\ Main \notin awaiting /\ main_phase = "idle_check"
    /\ pc[Main] \in {"idle_check", "extract", "merge"}
    /\ lock' = IF pc[Main] = "merge" THEN lock_release(lock) ELSE lock
    /\ Ctl(Main, "stopping", Main,
           IF pc[Main] = "merge" THEN ready \o lock_wakes(lock) ELSE ready)
    /\ frame' = Dropped(Main)
    /\ UNCHANGED <<chunkVars, mergeVars, cfgVars, recent_questions, recognizer, delivered,
                   main_phase, awaiting, loop, reads, routed, segments, merge_steps,
                   force_flushes>>

\* Ctrl+C while Main is suspended in sleep: the interrupt hits the event
\* loop (or a handler task), not the try block of run_capture; asyncio.run
\* cancels every task and the program ends without finalizing
KeyboardInterruptEscapes ==
    /\ pipeline = "run_capture" /\ loop = "open"
    /\ pc[Main] \in {"sleep", "woken"}
    /\ pc' = [t \in Coroutines |->
                IF t = Main \/ pc[t] \in LivePcs THEN "cancelled" ELSE pc[t]]
    /\ running' = NoTask
    /\ ready' = <<>>
    /\ awaiting' = {}
    /\ lock' = LockNew
    /\ loop' = "closed"
    /\ frame' = [t \in Coroutines |-> FrameNew]
    /\ UNCHANGED <<chunkVars, mergeVars, cfgVars, recent_questions, recognizer, delivered,
                   main_phase, reads, routed, segments, merge_steps, force_flushes>>

\* recognizer.stop_continuous_recognition()
StopRecognition ==
    /\ loop = "open" /\ running = Main /\ pc[Main] = "stopping"
    /\ recognizer' = "stopped"
    /\ Ctl(Main, "force_flush", Main, ready)
    /\ UNCHANGED <<chunkVars, mergeVars, cfgVars, lock, recent_questions, delivered,
                   frame, main_phase, awaiting, loop, reads, routed, segments,
                   merge_steps, force_flushes>>

\* the transcript loop takes the next paragraph (stripped and not empty)
NextParagraph(text) ==
    /\ pipeline = "process_markdown_transcript" /\ loop = "open"
    /\ running = Main /\ pc[Main] = "next_paragraph"
    /\ Len(delivered) < MaxUtterances
    /\ text = strip(text) /\ text # <<>>
    /\ delivered' = Append(delivered, text)
    /\ LET withText == [frame EXCEPT ![Main].text = text]
       IN  IF ENABLE_INTERVIEW_MODE /\ ROLE_CLASSIFIER_MODE = "llm"
           THEN /\ frame' = withText
                /\ Ctl(Main, "classify", Main, ready)
                /\ UNCHANGED <<recent_questions, answer_chunker, routed, segments>>
           ELSE LET role == IF ENABLE_INTERVIEW_MODE
                            THEN heuristic_role_classify(text) ELSE "ANSWER"
                    eff == process_utterance(text, role)
                IN  /\ recent_questions' = eff.rq
                    /\ answer_chunker' = eff.cb
                    /\ routed' = Append(routed, [text |-> text, role |-> role,
                                                 utterance |-> Len(delivered) + 1])
                    /\ IF Truthy(eff.chunk)
                       THEN /\ frame' = [withText EXCEPT
                                           ![Main].segment = eff.chunk[1],
                                           ![Main].recent_q_text = recent_q_text(recent_questions),
                                           ![Main].extracted = NoResult]
                            /\ segments' = Append(segments, eff.chunk[1])
                            /\ Ctl(Main, "extract", Main, ready)
                       ELSE /\ Continue(Main, ready)
                            /\ UNCHANGED segments
    /\ UNCHANGED <<clock, calls, mergeVars, cfgVars, lock, recognizer, main_phase,
                   awaiting, loop, reads, merge_steps, force_flushes>>

\* the transcript loop has no paragraph left
EndOfTranscript ==
    /\ pipeline = "process_markdown_transcript" /\ loop = "open"
    /\ running = Main /\ pc[Main] = "next_paragraph"
    /\ Ctl(Main, "force_flush", Main, ready)
    /\ UNCHANGED <<chunkVars, mergeVars, cfgVars, lock, recent_questions, recognizer,
                   delivered, frame, main_phase, awaiting, loop, reads, routed,
                   segments, merge_steps, force_flushes>>

\* ProcessOrchestrator.force_flush
ForceFlush ==
    /\ loop = "open" /\ running = Main /\ pc[Main] = "force_flush"
    /\ main_phase' = "force_flush"
    /\ force_flushes' = force_flushes + 1
    /\ LET res == force_flush_chunk(answer_chunker)
       IN  /\ answer_chunker' = res.cb
           /\ IF Truthy(res.ret)
              THEN BeginChunk(Main, res.ret[1], ready)
              ELSE /\ Ctl(Main, "finalize", Main, ready)
                   /\ UNCHANGED <<frame, segments>>
    /\ UNCHANGED <<clock, calls, mergeVars, cfgVars, lock, recent_questions, recognizer,
                   delivered, awaiting, loop, reads, routed, merge_steps>>

\* finalize_documents serializes the memory and makes its blocking
\* llm_markdown_completion call
FinalizeStart ==
    /\ loop = "open" /\ running = Main /\ pc[Main] = "finalize"
    /\ reads' = {memory}
    /\ Ctl(Main, "finalize_md", Main, ready)
    /\ UNCHANGED <<chunkVars, mergeVars, cfgVars, lock, recent_questions, recognizer,
                   delivered, frame, main_phase, awaiting, loop, routed, segments,
                   merge_steps, force_flushes>>

\* the markdown call answers; generate_bpmn_xml and render_diagrams_png read
\* the memory when ENABLE_BPMN_GENERATION / ENABLE_PNG_GENERATION are set;
\* finalize_documents and Main return
FinalizeReturn(raises, bpmn, png) ==
    /\ loop = "open" /\ running = Main /\ Main \notin awaiting /\ pc[Main] = "finalize_md"
    /\ IF raises
       THEN /\ Raise(Main, ready)
            /\ UNCHANGED reads
       ELSE /\ reads' = reads \cup (IF bpmn THEN {memory} ELSE {})
                                \cup (IF png THEN {memory} ELSE {})
            /\ frame' = Dropped(Main)
            /\ Ctl(Main, "returned", NoTask, Append(ready, StopLoop))
    /\ UNCHANGED <<chunkVars, mergeVars, cfgVars, lock, recent_questions, recognizer,
                   delivered, main_phase, awaiting, loop, routed, segments, merge_steps,
                   force_flushes>>

\* the loop reaches the done-callback of Main: run_until_complete returns and
\* asyncio.run cancels what is left
LoopStop ==
    /\ loop = "open" /\ running = NoTask
    /\ ready # <<>> /\ Head(ready) = StopLoop
    /\ pc' = [t \in Coroutines |-> IF pc[t] \in LivePcs THEN "cancelled" ELSE pc[t]]
    /\ ready' = <<>>
    /\ awaiting' = {}
    /\ lock' = LockNew
    /\ loop' = "closed"
    /\ frame' = [t \in Coroutines |-> FrameNew]
    /\ UNCHANGED <<chunkVars, mergeVars, cfgVars, recent_questions, recognizer, delivered,
                   running, main_phase, reads, routed, segments, merge_steps,
                   force_flushes>>

Next ==
    \/ \E text \in UtteranceTexts, created \in BOOLEAN : Recognized(text, created)
    \/ \E t \in HandlerTasks : LoopRunHandler(t)
    \/ \E t \in Coroutines, resp \in ClassifyResponses : ClassifyReturn(t, resp)
    \/ \E t \in Coroutines, resp \in ExtractResponses : ExtractReturn(t, resp)
    \/ \E t \in Coroutines, resp \in MergeResponses : MergeReturn(t, resp)
    \/ \E d \in SleepDurations : SleepElapsed(d)
    \/ LoopRunMain
    \/ IdleCheck
    \/ KeyboardInterruptCaught
    \/ KeyboardInterruptEscapes
    \/ StopRecognition
    \/ \E text \in UtteranceTexts : NextParagraph(text)
    \/ EndOfTranscript
    \/ ForceFlush
    \/ FinalizeStart
    \/ \E raises, bpmn, png \in BOOLEAN : FinalizeReturn(raises, bpmn, png)
    \/ LoopStop

Spec == Init /\ [][Next]_vars

-----------------------------------------------------------------------------
(* The utterance path of both pipelines, from the source to the merge: the *)
(* pipelines without idle polling, interrupts and finalization             *)

NextArrival ==
    \/ \E text \in UtteranceTexts, created \in BOOLEAN : Recognized(text, created)
    \/ \E t \in HandlerTasks : LoopRunHandler(t)
    \/ \E text \in UtteranceTexts : NextParagraph(text)
    \/ \E t \in Coroutines, resp \in ClassifyResponses : ClassifyReturn(t, resp)
    \/ \E t \in Coroutines, resp \in ExtractResponses : ExtractReturn(t, resp)
    \/ \E t \in Coroutines, resp \in MergeResponses : MergeReturn(t, resp)

SpecArrival == Init /\ [][NextArrival]_vars

\* C11: in both pipelines and both classifier modes the utterances reach the
\* routing step of process_utterance in the order in which the source
\* delivered them: a later utterance is never routed before an earlier one.
C11_ArrivalOrderRouting ==
    \A i, j \in 1..Len(routed) :
        /\ routed[i].text = delivered[routed[i].utterance]
        /\ i < j => routed[i].utterance < routed[j].utterance

\* C11 witness: live capture with the external classifier has routed two
\* utterances, the second of which was recognized before the first was routed
C11_Witness ==
    /\ pipeline = "run_capture" /\ ROLE_CLASSIFIER_MODE = "llm"
    /\ Len(routed) >= 2
    /\ routed[1].role # routed[2].role

\* C15: in external (llm) classifier mode classify_role never ends with an
\* exception, whatever the classification call does: a coroutine standing in
\* classify_role goes on to route its utterance.
C15_ExternalClassifierNeverRaises ==
    [][\A t \in Coroutines :
          pc[t] = "classify" => pc'[t] \notin {"failed", "crashed"}]_vars

\* the routines that hold a fragment: past the extraction call, before the
\* merge call has answered
HoldsFragment == {t \in Coroutines : pc[t] \in {"lock_wait", "merge"}}

\* C13: whatever the extraction call answers, the fragment that process_chunk
\* takes into the lock-protected merge step is a JSON object: the parsed one,
\* or the empty fragment {} when the answer is missing, malformed or
\* unparseable.
C13_MalformedExtractionGivesEmptyFragment ==
    \A t \in HoldsFragment : frame[t].extracted.status = "dict"

-----------------------------------------------------------------------------
(* Properties of the pipelines *)

\* finalize_documents has serialized the memory for its markdown call
FinalizationStarted == reads # {}

\* C2: in the live-capture pipeline finalization starts only when no
\* utterance-handling task and no segment-processing routine is outstanding.
C2_ShutdownWaitsForInFlightWork ==
    (pipeline = "run_capture" /\ pc[Main] = "finalize_md") =>
        \A t \in HandlerTasks : pc[t] \notin LivePcs

\* C8: once finalization has begun the memory is never replaced again: no
\* merge executes during or after finalization.
C8_FrozenAfterFinalization == [][FinalizationStarted => memory' = memory]_vars

\* C14: a failed extraction or merge call never keeps finalization from being
\* reached: the main coroutine does not end with an exception before
\* finalize_documents has started (from where it cannot go on, the loop over
\* the utterances and finalization being its own code).
C14_FinalizationAlwaysProceeds ==
    pc[Main] = "crashed" => FinalizationStarted

\* the delivered utterances that reached handle_final_text or the transcript
\* loop, among the first n
RECURSIVE HandedOver(_)
HandedOver(n) ==
    IF n = 0 THEN <<>>
    ELSE IF pc[n] = "dropped" THEN HandedOver(n - 1)
    ELSE Append(HandedOver(n - 1), delivered[n])

\* C9: when finalization has started, force_flush has been called exactly
\* once, the ChunkBuffer is empty, and (every utterance being an answer when
\* interview mode is off) the words of the utterances handed over by the
\* source are the words of the emitted segments.
C9_DrainLosesNoText ==
    FinalizationStarted =>
        /\ force_flushes = 1
        /\ answer_chunker.buffer = <<>>
        /\ (~ENABLE_INTERVIEW_MODE) =>
               split(join(segments)) = split(join(HandedOver(Len(delivered))))

\* C10: while a segment's extraction/merge round trip is outstanding, the
\* next utterance can be taken up: in live capture the event loop can start
\* the handler task of an utterance that was recognized meanwhile, in the
\* transcript pipeline the loop over the paragraphs can take the next one.
C10_ExtractionDoesNotBlockIngestion ==
    (loop = "open" /\ \E t \in Coroutines : pc[t] \in {"extract", "lock_wait", "merge"}) =>
        /\ (\E u \in HandlerTasks : pc[u] = "ready") =>
               ENABLED (\E u \in HandlerTasks : LoopRunHandler(u))
        /\ (pipeline = "process_markdown_transcript" /\ Len(delivered) < MaxUtterances) =>
               ENABLED (\E text \in UtteranceTexts : NextParagraph(text))

-----------------------------------------------------------------------------
(* Concurrent process_chunk routines: every handler task runs one          *)
(* process_chunk on the same ProcessOrchestrator and event loop.           *)
(*                                                                         *)
(* With the synchronous client the awaits of process_chunk never suspend,  *)
(* so in the pipelines above a routine passes `async with self.lock`       *)
(* without ever meeting another one.  Here the two awaited completion      *)
(* calls may also suspend, which is what they do with an asynchronous      *)
(* client: the schedules of the pipelines are among the schedules of this  *)
(* specification, and the lock is what keeps the merge steps apart.        *)

\* the segment each routine is started with
ChunkSegments == { <<"a">> }

InitConcurrent ==
    /\ MergeIdle
    /\ ChunkIdle
    /\ pipeline = "none"
    /\ ENABLE_INTERVIEW_MODE = FALSE
    /\ ROLE_CLASSIFIER_MODE = "heuristic"
    /\ lock = LockNew
    /\ recent_questions = <<>>
    /\ recognizer = "unused"
    /\ delivered = <<>>
    /\ pc = [t \in Coroutines |-> "unborn"]
    /\ frame = [t \in Coroutines |-> FrameNew]
    /\ main_phase = "none"
    /\ ready = <<>>
    /\ running = NoTask
    /\ awaiting = {}
    /\ loop = "open"
    /\ reads = {}
    /\ routed = <<>>
    /\ segments = <<>>
    /\ merge_steps = 0
    /\ force_flushes = 0

\* coroutine t has a callback on the loop's ready queue
InReady(t) == \E i \in 1..Len(ready) : ready[i] = t

\* a task is created for process_chunk(segment): it goes on the ready queue
SpawnChunk(t, segment) ==
    /\ loop = "open" /\ pc[t] = "unborn"
    /\ pc' = [pc EXCEPT ![t] = "ready"]
    /\ frame' = [frame EXCEPT ![t].segment = segment]
    /\ ready' = Append(ready, t)
    /\ UNCHANGED <<chunkVars, mergeVars, cfgVars, lock, recent_questions, recognizer,
                   delivered, running, main_phase, awaiting, loop, reads, routed,
                   segments, merge_steps, force_flushes>>

\* the event loop starts the process_chunk task at the head of its queue
StartChunk(t) ==
    /\ loop = "open" /\ running = NoTask
    /\ ready # <<>> /\ Head(ready) = t /\ pc[t] = "ready"
    /\ BeginChunk(t, frame[t].segment, Tail(ready))
    /\ UNCHANGED <<chunkVars, mergeVars, cfgVars, lock, recent_questions, recognizer,
                   delivered, main_phase, awaiting, loop, reads, routed, merge_steps,
                   force_flushes>>

\* the await of a completion call (extraction, line 418; merge, line 421)
\* suspends coroutine t: the loop is free until the call answers
Suspend(t) ==
    /\ loop = "open" /\ running = t /\ t \notin awaiting
    /\ pc[t] \in {"extract", "merge"}
    /\ awaiting' = awaiting \cup {t}
    /\ running' = NoTask
    /\ UNCHANGED <<chunkVars, mergeVars, cfgVars, lock, recent_questions, recognizer,
                   delivered, pc, ready, frame, main_phase, loop, reads, routed,
                   segments, merge_steps, force_flushes>>

\* the completion call that t is suspended on has answered: t is ready again
ResponseReady(t) ==
    /\ loop = "open" /\ t \in awaiting /\ ~InReady(t)
    /\ ready' = Append(ready, t)
    /\ UNCHANGED <<chunkVars, mergeVars, cfgVars, lock, recent_questions, recognizer,
                   delivered, pc, running, frame, main_phase, awaiting, loop, reads,
                   routed, segments, merge_steps, force_flushes>>

\* the event loop resumes t after its completion call
LoopResume(t) ==
    /\ loop = "open" /\ running = NoTask
    /\ ready # <<>> /\ Head(ready) = t /\ t \in awaiting
    /\ awaiting' = awaiting \ {t}
    /\ running' = t
    /\ ready' = Tail(ready)
    /\ UNCHANGED <<chunkVars, mergeVars, cfgVars, lock, recent_questions, recognizer,
                   delivered, pc, frame, main_phase, loop, reads, routed, segments,
                   merge_steps, force_flushes>>

\* the slow path of asyncio.Lock.acquire: the loop resumes the waiter that
\* release woke, which leaves the line and takes the lock
LockGranted(t) ==
    /\ loop = "open" /\ running = NoTask
    /\ ready # <<>> /\ Head(ready) = t /\ pc[t] = "lock_wait"
    /\ lock' = [locked |-> TRUE, waiters |-> SelectSeq(lock.waiters, LAMBDA w : w # t)]
    /\ merge_steps' = merge_steps + 1
    /\ frame' = [frame EXCEPT ![t].a = memory]
    /\ Ctl(t, "merge", t, Tail(ready))
    /\ UNCHANGED <<chunkVars, mergeVars, cfgVars, recent_questions, recognizer, delivered,
                   main_phase, awaiting, loop, reads, routed, segments, force_flushes>>

NextConcurrent ==
    \/ \E t \in HandlerTasks, segment \in ChunkSegments : SpawnChunk(t, segment)
    \/ \E t \in HandlerTasks : StartChunk(t)
    \/ \E t \in HandlerTasks, resp \in ExtractResponses : ExtractReturn(t, resp)
    \/ \E t \in HandlerTasks, resp \in MergeResponses : MergeReturn(t, resp)
    \/ \E t \in HandlerTasks : Suspend(t)
    \/ \E t \in HandlerTasks : ResponseReady(t)
    \/ \E t \in HandlerTasks : LoopResume(t)
    \/ \E t \in HandlerTasks : LockGranted(t)

SpecConcurrent == InitConcurrent /\ [][NextConcurrent]_vars

\* the routines inside `async with self.lock`
InCriticalSection == {t \in Coroutines : pc[t] = "merge"}

\* the routines between the start of process_chunk and its return
InFlight == {t \in Coroutines : pc[t] \in {"extract", "lock_wait", "merge"}}

\* the routines that ended with an exception of a completion call
Failed == {t \in Coroutines : pc[t] = "failed"}

\* C1: with any number of process_chunk routines in flight, at most one is
\* inside the lock-protected merge step at any time, the lock is held exactly
\* while one is, and the merge step is entered exactly once per routine: once
\* all N routines have returned, it has run N times.
C1_AtMostOneWriter ==
    /\ Cardinality(InCriticalSection) <= 1
    /\ lock.locked <=> InCriticalSection # {}
    /\ merge_steps <= Len(segments)
    /\ (InFlight = {} /\ Failed = {}) => merge_steps = Len(segments)

\* C12: every merge works, inside the critical section, on the memory as the
\* merge that held the lock before it left it: from the moment a routine has
\* taken the lock and handed self.memory to merge_models until it stores the
\* result, the memory is still the value it handed over, so no completed
\* merge is overwritten by a result computed from an older memory.
C12_MergesSeeLatestMemory ==
    \A t \in InCriticalSection : frame[t].a = memory

\* C12 witness: the second routine to take the lock is suspended in its merge
\* call, working on the memory that the first merge wrote
C12_Witness ==
    \E t \in InCriticalSection :
        /\ t \in awaiting
        /\ merge_steps >= 2
        /\ frame[t].a # empty_process_memory

\* C29: when the merge call raises inside the critical section (or answers
\* with something merge_models cannot read), the memory keeps the value it
\* had before the merge attempt and the lock is released: it is not held
\* after the step, and the first routine in line for it, if any, is on the
\* ready queue to take it.
C29_MergeFailureLeavesStateIntact ==
    [][\A t \in HandlerTasks :
          (pc[t] = "merge" /\ pc'[t] = "failed") =>
              /\ memory' = memory
              /\ ~lock'.locked
              /\ lock.waiters # <<>> => InReady(Head(lock.waiters))']_vars

\* C29 witness: every routine started has entered the merge step; the merge
\* call of one of them failed, and another is inside the merge step after it
C29_Witness ==
    \E t, u \in HandlerTasks :
        /\ pc[t] = "failed" /\ pc[u] = "merge"
        /\ merge_steps = Len(segments) /\ merge_steps >= 2
        /\ frame[u].a = memory

\* the fairness that the event loop and the completion calls give: the loop
\* runs what is ready, and every extraction and merge call answers or
\* raises in the end, however often its coroutine is suspended and resumed
FairConcurrent ==
    /\ WF_vars(NextConcurrent)
    /\ SF_vars(\E t \in HandlerTasks, resp \in ExtractResponses : ExtractReturn(t, resp))
    /\ SF_vars(\E t \in HandlerTasks, resp \in MergeResponses : MergeReturn(t, resp))

SpecConcurrentFair == SpecConcurrent /\ FairConcurrent

C1_Witness ==
    \E t, u \in HandlerTasks :
        /\ t # u
        /\ pc[t] = "merge" /\ t \in awaiting
        /\ pc[u] = "lock_wait"
        /\ lock.waiters = <<u>>

-----------------------------------------------------------------------------
(* Properties of the ChunkBuffer, stated on the harness log *)

\* whitespace tokens pending in a buffer: the single-space join of its segments, split
Pending(buffer) == split(join(buffer))

FirstTokens(tokens, n) == SubSeq(tokens, 1, n)
LastTokens(tokens, n) == SubSeq(tokens, Len(tokens) - n + 1, Len(tokens))

\* two flush_if_idle calls in succession: adjacent in the log, same clock reading,
\* same idle_seconds
IdlePair(i) ==
    /\ i \in 1..(Len(calls) - 1)
    /\ calls[i].op = "flush_if_idle" /\ calls[i + 1].op = "flush_if_idle"
    /\ calls[i].now = calls[i + 1].now
    /\ calls[i].idle_seconds = calls[i + 1].idle_seconds

\* C5 (as stated): of two flush_if_idle calls in succession with no add in
\* between, the second returns no segment, whatever the first returned and
\* however many tokens were pending.
C5_SecondIdleFlushReturnsNothing ==
    \A i \in 1..Len(calls) : IdlePair(i) => calls[i + 1].ret = None

\* C5 (amended): of two flush_if_idle calls in succession, the second returns
\* no segment when the first returned none or when at most overlap_tokens
\* words were pending before the first; when the first emitted from more than
\* overlap_tokens pending words, the second emits the retained tail (the last
\* overlap_tokens words) and empties the buffer, and returns nothing only if
\* overlap_tokens is 0.
C5_IdleFlushIdempotentUpToTail ==
    \A i \in 1..Len(calls) :
        IdlePair(i) =>
            LET T == Pending(calls[i].before.buffer)
                o == calls[i].before.overlap_tokens
                second == calls[i + 1]
            IN  /\ (calls[i].ret = None \/ Len(T) <= o \/ o = 0) => second.ret = None
                /\ (calls[i].ret # None /\ Len(T) > o /\ o > 0) =>
                       /\ second.ret = Some(join(LastTokens(T, o)))
                       /\ second.after.buffer = <<>>

\* C5 witness: a first idle flush emitted the whole pending text and the second returned nothing
C5_Witness ==
    \E i \in 1..Len(calls) :
        /\ IdlePair(i)
        /\ Truthy(calls[i].ret)
        /\ calls[i + 1].ret = None

\* the ChunkBuffer on which call c ran its soft flush, or None when c ran none
SoftFlushed(c) ==
    IF c.op = "flush_chunk" THEN Some(c.before)
    ELSE IF c.op = "flush_if_idle"
            /\ c.now - c.before.last_activity_ts > c.idle_seconds
            /\ c.before.buffer # <<>>
         THEN Some(c.before)
    ELSE IF c.op = "add"
         THEN LET appended == Append(c.before.buffer, strip(c.text))
              IN  IF (3 * Len(Pending(appended))) \div 4 >= c.before.token_target
                  THEN Some([c.before EXCEPT !.buffer = appended])
                  ELSE None
    ELSE None

\* C6: a soft flush over pending tokens T emits, when |T| > overlap_tokens, the
\* first |T| - overlap_tokens tokens joined by single spaces and leaves the last
\* overlap_tokens tokens as the sole pending segment; when |T| <= overlap_tokens
\* it emits the whole pending text and leaves the buffer empty.
C6_SoftFlushLaw ==
    \A i \in 1..Len(calls) :
        LET c == calls[i]
            f == SoftFlushed(c)
        IN  f # None =>
              LET T == Pending(f[1].buffer)
                  o == f[1].overlap_tokens
              IN  /\ (Len(T) > o) =>
                        /\ c.ret = Some(join(FirstTokens(T, Len(T) - o)))
                        /\ Pending(c.after.buffer) = LastTokens(T, o)
                        /\ c.after.buffer = IF o > 0 THEN <<join(LastTokens(T, o))>> ELSE <<>>
                  /\ (Len(T) <= o /\ f[1].buffer # <<>>) =>
                        /\ c.ret = Some(strip(join(f[1].buffer)))
                        /\ c.after.buffer = <<>>
                  /\ f[1].buffer = <<>> => c.ret = None /\ c.after.buffer = <<>>

\* calls i and j returned segments one after the other: no call between them
\* returned one
AdjacentEmissions(i, j) ==
    /\ i \in 1..Len(calls) /\ j \in 1..Len(calls) /\ i < j
    /\ Truthy(calls[i].ret) /\ Truthy(calls[j].ret)
    /\ \A m \in (i + 1)..(j - 1) : ~Truthy(calls[m].ret)

\* C18: when a soft flush emits a segment S and retains a tail, the last k
\* tokens of S are the first k tokens of the next emitted segment, k being
\* overlap_tokens or the length of the shorter of the two segments if that
\* is less.
C18_OverlapContinuity ==
    \A i, j \in 1..Len(calls) :
        (/\ AdjacentEmissions(i, j)
         /\ SoftFlushed(calls[i]) # None
         /\ calls[i].after.buffer # <<>>) =>
            LET S == split(calls[i].ret[1])
                N == split(calls[j].ret[1])
                o == calls[i].before.overlap_tokens
                short == IF Len(S) < Len(N) THEN Len(S) ELSE Len(N)
                k == IF o < short THEN o ELSE short
            IN  LastTokens(S, k) = FirstTokens(N, k)

\* C6 witness: a soft flush split the pending tokens into an emitted head and a retained tail
C6_Witness ==
    \E i \in 1..Len(calls) :
        /\ SoftFlushed(calls[i]) # None
        /\ Len(Pending(SoftFlushed(calls[i])[1].buffer)) > calls[i].before.overlap_tokens
        /\ calls[i].before.overlap_tokens > 0
        /\ Truthy(calls[i].ret)
        /\ calls[i].after.buffer # <<>>

\* the trimmed texts of the first k calls
RECURSIVE AddedTexts(_)
AddedTexts(k) == IF k = 0 THEN <<>> ELSE Append(AddedTexts(k - 1), strip(calls[k].text))

\* every call so far was an add that left floor(0.75 * words) of the pending
\* concatenation below token_target
StaysBelowTarget ==
    \A k \in 1..Len(calls) :
        /\ calls[k].op = "add"
        /\ (3 * Len(Pending(AddedTexts(k)))) \div 4 < answer_chunker.token_target

\* C7: as long as the approximate token count of the pending concatenation
\* stays below token_target after each add, every add returns no segment and
\* the buffer keeps all added text.
C7_NoEmissionBelowTarget ==
    StaysBelowTarget =>
        /\ \A k \in 1..Len(calls) : calls[k].ret = None
        /\ answer_chunker.buffer = AddedTexts(Len(calls))

\* C7 witness: two adds with words pending, still below the target
C7_Witness ==
    /\ Len(calls) >= 2
    /\ StaysBelowTarget
    /\ Len(Pending(answer_chunker.buffer)) >= 2


\* the place in the log of the call made last.  The log only grows, so every
\* logged call is the last one in the state its call led to: what holds of
\* the last call in every reachable state holds of every call.
LastCall == {Len(calls)} \ {0}

\* C21: flush_if_idle(idle_seconds) emits exactly when the buffer is not
\* empty and now - last_activity_ts > idle_seconds, and what it does then is
\* the soft flush: all but the last overlap_tokens pending words are
\* emitted and the rest retained, or everything is emitted when at most
\* overlap_tokens words are pending.  Otherwise it returns nothing and leaves
\* the ChunkBuffer as it is.  A single pending text of at most
\* overlap_tokens words, idle for longer than idle_seconds, is returned and
\* the buffer is empty afterwards.
C21_FlushIfIdleGuard ==
    \A i \in LastCall :
        calls[i].op = "flush_if_idle" =>
            LET c == calls[i]
                T == Pending(c.before.buffer)
                o == c.before.overlap_tokens
                idle == c.now - c.before.last_activity_ts > c.idle_seconds
            IN  /\ (c.ret # None) <=> (c.before.buffer # <<>> /\ idle)
                /\ (c.before.buffer = <<>> \/ ~idle) => c.after = c.before
                /\ (c.ret # None /\ Len(T) > o) =>
                       /\ c.ret = Some(join(FirstTokens(T, Len(T) - o)))
                       /\ Pending(c.after.buffer) = LastTokens(T, o)
                /\ (c.ret # None /\ Len(T) <= o) =>
                       /\ c.ret = Some(strip(join(c.before.buffer)))
                       /\ c.after.buffer = <<>>
                /\ (c.ret # None /\ Len(c.before.buffer) = 1 /\ Len(T) <= o) =>
                       c.ret = Some(c.before.buffer[1])
                /\ c.after.last_activity_ts = c.before.last_activity_ts

\* C21 witness: an idle flush at exactly idle_seconds returned nothing, and
\* a later one, past idle_seconds, returned the single short pending text
C21_Witness ==
    \E i, j \in 1..Len(calls) :
        /\ i < j
        /\ calls[i].op = "flush_if_idle" /\ calls[j].op = "flush_if_idle"
        /\ calls[i].before.buffer # <<>>
        /\ calls[i].now - calls[i].before.last_activity_ts = calls[i].idle_seconds
        /\ calls[i].ret = None
        /\ Len(calls[j].before.buffer) = 1
        /\ calls[j].ret = Some(<<"a">>)
        /\ calls[j].after.buffer = <<>>

\* the calls that flush: soft, idle or forced
FlushOps == {"flush_chunk", "flush_if_idle", "force_flush_chunk"}

\* C22 (as stated): force_flush_chunk on a non-empty buffer returns the
\* single-space concatenation of all pending segments and leaves the buffer
\* empty; any flush on an empty buffer returns nothing and changes nothing;
\* a force_flush_chunk right after a force_flush_chunk returns nothing.
C22_HardFlushDrainsVerbatim ==
    \A i \in 1..Len(calls) :
        LET c == calls[i]
        IN  /\ (c.op = "force_flush_chunk" /\ c.before.buffer # <<>>) =>
                   /\ c.ret = Some(join(c.before.buffer))
                   /\ c.after.buffer = <<>>
            /\ (c.op \in FlushOps /\ c.before.buffer = <<>>) =>
                   /\ c.ret = None
                   /\ c.after = c.before
            /\ (i > 1 /\ c.op = "force_flush_chunk"
                      /\ calls[i - 1].op = "force_flush_chunk") => c.ret = None

\* C22 (amended): force_flush_chunk on a non-empty buffer returns the
\* single-space concatenation of all pending segments with leading and
\* trailing whitespace removed, and leaves the buffer empty, whatever
\* overlap_tokens is; any flush on an empty buffer returns nothing and changes
\* nothing; a force_flush_chunk right after a force_flush_chunk returns
\* nothing.
C22_HardFlushDrainsTrimmed ==
    \A i \in LastCall :
        LET c == calls[i]
        IN  /\ (c.op = "force_flush_chunk" /\ c.before.buffer # <<>>) =>
                   /\ c.ret = Some(strip(join(c.before.buffer)))
                   /\ c.after = [c.before EXCEPT !.buffer = <<>>]
            /\ (c.op \in FlushOps /\ c.before.buffer = <<>>) =>
                   /\ c.ret = None
                   /\ c.after = c.before
            /\ (i > 1 /\ c.op = "force_flush_chunk"
                      /\ calls[i - 1].op = "force_flush_chunk") => c.ret = None

\* C22 witness: a hard flush emitted all pending words, more of them than
\* overlap_tokens, and the hard flush after it returned nothing
C22_Witness ==
    \E i \in 2..Len(calls) :
        /\ calls[i - 1].op = "force_flush_chunk" /\ calls[i].op = "force_flush_chunk"
        /\ Len(Pending(calls[i - 1].before.buffer)) > calls[i - 1].before.overlap_tokens
        /\ calls[i - 1].before.overlap_tokens > 0
        /\ calls[i - 1].ret = Some(join(calls[i - 1].before.buffer))
        /\ calls[i - 1].after.buffer = <<>>
        /\ calls[i].ret = None

\* the pending segments of an add call after the append of its trimmed text
Appended(c) == Append(c.before.buffer, strip(c.text))

\* the approximate token count that add computes on the pending concatenation
AddTokens(c) == (3 * Len(Pending(Appended(c)))) \div 4

\* C23: an add that brings the approximate token count of the pending
\* concatenation to token_max or beyond performs a hard flush: it returns
\* a segment with every pending word and leaves the buffer empty, no overlap
\* retained.
C23_HardCeilingInAdd ==
    \A i \in 1..Len(calls) :
        LET c == calls[i]
        IN  (c.op = "add" /\ AddTokens(c) >= c.before.token_max) =>
                /\ c.ret # None
                /\ split(c.ret[1]) = Pending(Appended(c))
                /\ c.after.buffer = <<>>

\* C24: every segment that add returns has an approximate token count of at
\* most token_max.
C24_SegmentsTokenBounded ==
    \A i \in 1..Len(calls) :
        LET c == calls[i]
        IN  (c.op = "add" /\ c.ret # None) =>
                approx_token_count(c.ret[1]) <= c.before.token_max

\* the two texts of the token_target = 4 scenario, a letter for each word:
\* "the customer calls support" and "and requests a refund today"
ScenarioFirst == <<"t", " ", "c", " ", "c", " ", "s">>
ScenarioSecond == <<"a", " ", "r", " ", "a", " ", "r", " ", "t">>

\* the two adds of the scenario on ChunkBuffer(overlap, 4, 5)
ScenarioAdds(overlap) ==
    LET first == add(ChunkBufferNew(overlap, 4, 5, 0), ScenarioFirst, 0)
        second == add(first.cb, ScenarioSecond, 0)
    IN  [first |-> first, second |-> second]

\* the scenario: the first add (4 words, 3 tokens) emits nothing, the second
\* (9 words pending, 6 tokens) emits the words of both texts but the last
\* overlap_tokens, which stay pending
ScenarioHolds ==
    \A overlap \in 0..3 :
        LET r == ScenarioAdds(overlap)
            all == split(ScenarioFirst) \o split(ScenarioSecond)
        IN  /\ r.first.ret = None
            /\ r.first.cb.buffer = <<ScenarioFirst>>
            /\ r.second.ret = Some(join(FirstTokens(all, Len(all) - overlap)))
            /\ Pending(r.second.cb.buffer) = LastTokens(all, overlap)

\* C25: with w the number of words of all pending segments joined, the text
\* of the call included, add emits by the soft flush whenever
\* (3 * w) \div 4 >= token_target: all but the last overlap_tokens of the w
\* words, or all of them when w <= overlap_tokens.  With token_target = 4 a
\* 4-word text emits nothing and a 5-word text added to it emits a segment
\* built from both.
C25_SizeTriggerOnPendingConcatenation ==
    /\ ScenarioHolds
    /\ \A i \in LastCall :
          LET c == calls[i]
              T == Pending(Appended(c))
              o == c.before.overlap_tokens
          IN  (c.op = "add" /\ (3 * Len(T)) \div 4 >= c.before.token_target) =>
                  /\ c.ret # None
                  /\ Len(T) > o =>
                        /\ c.ret = Some(join(FirstTokens(T, Len(T) - o)))
                        /\ Pending(c.after.buffer) = LastTokens(T, o)
                  /\ Len(T) <= o =>
                        /\ c.ret = Some(strip(join(Appended(c))))
                        /\ c.after.buffer = <<>>

\* C25 witness: an add emitted a segment built from an earlier pending text
\* and its own, which alone is below the target
C25_Witness ==
    \E i \in 1..Len(calls) :
        /\ calls[i].op = "add"
        /\ calls[i].before.buffer # <<>>
        /\ approx_token_count(calls[i].before.buffer[1]) > 0
        /\ approx_token_count(calls[i].text) > 0
        /\ approx_token_count(calls[i].text) < calls[i].before.token_target
        /\ calls[i].ret # None
        /\ Len(split(calls[i].ret[1])) > Len(split(calls[i].text))

\* the words of the segments the logged calls returned, in emission order
RECURSIVE EmittedTokens(_)
EmittedTokens(log) ==
    IF log = <<>> THEN <<>>
    ELSE (IF Head(log).ret # None THEN split(Head(log).ret[1]) ELSE <<>>)
         \o EmittedTokens(Tail(log))

\* the words of the texts the logged add calls were given, in call order
RECURSIVE AddedTokens(_)
AddedTokens(log) ==
    IF log = <<>> THEN <<>>
    ELSE (IF Head(log).op = "add" THEN split(Head(log).text) ELSE <<>>)
         \o AddedTokens(Tail(log))

\* C27: after any sequence of add, flush_if_idle, flush_chunk and
\* force_flush_chunk calls, the words of the emitted segments in emission
\* order followed by the words still pending are the words of the added
\* texts in order: none lost, none twice, none out of place.
C27_TokenConservation ==
    EmittedTokens(calls) \o Pending(answer_chunker.buffer) = AddedTokens(calls)

\* C27 witness: two segments were emitted, the first by a soft flush that
\* retained a tail, and words are pending
C27_Witness ==
    /\ \E i, j \in 1..Len(calls) :
          /\ AdjacentEmissions(i, j)
          /\ SoftFlushed(calls[i]) # None
          /\ calls[i].after.buffer # <<>>
    /\ Pending(answer_chunker.buffer) # <<>>
    /\ Len(EmittedTokens(calls)) >= 3

\* C28: for a ChunkBuffer with (3 * overlap_tokens) \div 4 < token_target,
\* the approximate token count of what is pending when add returns is below
\* token_target; and after every soft flush at most overlap_tokens words
\* are pending, in at most one segment.
C28_PendingStaysBelowTarget ==
    \A i \in LastCall :
        LET c == calls[i]
            o == c.before.overlap_tokens
        IN  /\ (c.op = "add" /\ (3 * o) \div 4 < c.before.token_target) =>
                   approx_token_count(join(c.after.buffer)) < c.before.token_target
            /\ SoftFlushed(c) # None =>
                   /\ Len(Pending(c.after.buffer)) <= o
                   /\ Len(c.after.buffer) <= 1

\* C28 witness: an add ran the soft flush on several pending segments and
\* left exactly overlap_tokens words pending, fewer tokens than the target
C28_Witness ==
    \E i \in 1..Len(calls) :
        /\ calls[i].op = "add"
        /\ calls[i].before.buffer # <<>>
        /\ calls[i].ret # None
        /\ calls[i].before.overlap_tokens > 0
        /\ Len(Pending(calls[i].after.buffer)) = calls[i].before.overlap_tokens
        /\ approx_token_count(join(calls[i].after.buffer)) < calls[i].before.token_target

-----------------------------------------------------------------------------
(* Classifier harness: heuristic_role_classify applied to utterance texts  *)
(* and its results logged                                                  *)

\* the texts classified: empty and blank, with and without a question mark,
\* starting with a word of the two tuples (alone, followed by more, in
\* upper case), starting with a longer word that has one of them as a
\* prefix, and holding one further in
ClassifyTexts ==
    { <<>>,
      <<" ">>,
      <<"b">>,
      <<"b", "?">>,
      <<" ", "b", "?", " ">>,
      <<"W", "h", "y">>,
      <<"w", "h", "y", " ", "b">>,
      <<"H", "O", "W", " ", "b">>,
      <<"h", "o", "w", "e", "v", "e", "r", " ", "b">>,
      <<"d", "o">>,
      <<"d", "o", "n", "e", " ", "b">>,
      <<"e", "x", "p", "l", "a", "i", "n">>,
      <<"E", "x", "p", "l", "a", "i", "n", " ", "b">>,
      <<"t", "e", "l", "l", " ", "m", "e", " ", "b">>,
      <<"t", "e", "l", "l", " ", "m", "e">>,
      <<"p", "l", "e", "a", "s", "e", " ", "e", "x", "p", "l", "a", "i", "n">>,
      <<"p", "l", "e", "a", "s", "e", " ", "e", "x", "p", "l", "a", "i", "n", "i", "n", "g", " ", "b">>,
      <<"w", "a", "l", "k", " ", "m", "e", " ", "t", "h", "r", "o", "u", "g", "h", " ", "b">>,
      <<"b", " ", "h", "o", "w", " ", "c">> }

InitClassify ==
    /\ MergeIdle
    /\ ChunkIdle
    /\ PipeIdle

CallHeuristicClassify(text) ==
    /\ pipeline = "none"
    /\ Len(calls) < MaxClassified
    /\ calls' = Append(calls, [op |-> "heuristic_role_classify", text |-> text,
                               ret |-> heuristic_role_classify(text)])
    /\ UNCHANGED <<clock, answer_chunker, mergeVars, pipeVars>>

NextClassify == \E text \in ClassifyTexts : CallHeuristicClassify(text)

SpecClassify == InitClassify /\ [][NextClassify]_vars

\* t starts with the word or words of a tuple entry (the entry without the
\* space that ends it): they are all of t, or a space follows them in t
starts_with_words(t, entry) ==
    LET words == rstrip(entry)
    IN  /\ startswith(t, words)
        /\ Len(t) = Len(words) \/ t[Len(words) + 1] = " "

starts_with_any_words(t, entries) ==
    \E i \in 1..Len(entries) : starts_with_words(t, entries[i])

\* C26: heuristic_role_classify gives, on the trimmed and lower-cased text,
\* ANSWER for the empty text, QUESTION for a text ending in "?", QUESTION
\* for a text starting with one of the interrogative words or phrases,
\* QUESTION for a text starting with one of the request verbs, and ANSWER
\* for every other text.
C26_HeuristicClassifier ==
    \A i \in 1..Len(calls) :
        calls[i].op = "heuristic_role_classify" =>
            LET t == lower(strip(calls[i].text))
            IN  calls[i].ret =
                    IF t = <<>> THEN "ANSWER"
                    ELSE IF t[Len(t)] = "?" THEN "QUESTION"
                    ELSE IF starts_with_any_words(t, q_starts) THEN "QUESTION"
                    ELSE IF starts_with_any_words(t, request_starts) THEN "QUESTION"
                    ELSE "ANSWER"

-----------------------------------------------------------------------------
(* Routing harness: one caller that awaits process_utterance(text, role)   *)
(* for one utterance after the other, as the loop of                       *)
(* process_markdown_transcript does, with the role any of the two values   *)
(* classify_role returns and the texts as the recognizer delivers them     *)
(* (not stripped).  Time passes between the calls.                         *)

Digits == <<"1", "2", "3", "4", "5", "6", "7", "8", "9">>

\* the text of the n-th utterance: two words that no other utterance has, padded
RoutingText(n) == <<" ", Digits[n], " ", Digits[n], " ">>

InitRouting ==
    /\ clock = 0
    /\ calls = <<>>
    /\ MergeIdle
    /\ answer_chunker = ChunkBufferNew(ScaledOverlap, ScaledTarget, ScaledMax, 0)
    /\ pipeline = "process_utterance"
    /\ ENABLE_INTERVIEW_MODE = TRUE
    /\ ROLE_CLASSIFIER_MODE \in {"heuristic", "llm"}
    /\ lock = LockNew
    /\ recent_questions = <<>>
    /\ recognizer = "unused"
    /\ delivered = <<>>
    /\ pc = [t \in Coroutines |-> IF t = Main THEN "next_paragraph" ELSE "unborn"]
    /\ frame = [t \in Coroutines |-> FrameNew]
    /\ main_phase = "paragraph"
    /\ ready = <<>>
    /\ running = Main
    /\ awaiting = {}
    /\ loop = "open"
    /\ reads = {}
    /\ routed = <<>>
    /\ segments = <<>>
    /\ merge_steps = 0
    /\ force_flushes = 0

\* await orchestrator.process_utterance(text, role) for the next utterance
CallProcessUtterance(role) ==
    /\ pipeline = "process_utterance" /\ loop = "open"
    /\ running = Main /\ pc[Main] = "next_paragraph"
    /\ Len(delivered) < MaxRouted
    /\ LET n == Len(delivered) + 1
           text == RoutingText(n)
           eff == process_utterance(text, role)
       IN  /\ delivered' = Append(delivered, text)
           /\ recent_questions' = eff.rq
           /\ answer_chunker' = eff.cb
           /\ routed' = Append(routed, [text |-> text, role |-> role, utterance |-> n])
           /\ IF Truthy(eff.chunk)
              THEN BeginChunk(Main, eff.chunk[1], ready)
              ELSE /\ Continue(Main, ready)
                   /\ UNCHANGED segments
    /\ UNCHANGED <<clock, calls, mergeVars, cfgVars, lock, recognizer, main_phase,
                   awaiting, loop, reads, merge_steps, force_flushes>>

\* a second passes
RoutingTick ==
    /\ pipeline = "process_utterance"
    /\ clock < MaxClock
    /\ clock' = clock + 1
    /\ UNCHANGED <<answer_chunker, calls, mergeVars, pipeVars>>

\* what the completion calls give back in this harness: the extraction call
\* raises or answers with a bare JSON object; the merge call raises or answers
\* with a bare JSON object that holds the title alone
RoutingExtractResponses == { r \in ExtractResponses : r.kind \in {"raises", "json_object"} }
RoutingMergeResponses ==
    { r \in MergeResponses :
        \/ r.kind = "raises"
        \/ r.kind = "json_object" /\ DOMAIN r.obj = {"title"} }

NextRouting ==
    \/ \E role \in {"QUESTION", "ANSWER"} : CallProcessUtterance(role)
    \/ \E resp \in RoutingExtractResponses : ExtractReturn(Main, resp)
    \/ \E resp \in RoutingMergeResponses : MergeReturn(Main, resp)
    \/ RoutingTick

SpecRouting == InitRouting /\ [][NextRouting]_vars

\* the last n entries of a sequence, all of them if it has fewer
LastEntries(seq, n) == SubSeq(seq, max(1, Len(seq) - n + 1), Len(seq))

\* the trimmed texts of the QUESTION utterances routed so far, in arrival order
RECURSIVE QuestionTexts(_)
QuestionTexts(rs) ==
    IF rs = <<>> THEN <<>>
    ELSE IF Head(rs).role = "QUESTION"
    THEN <<strip(Head(rs).text)>> \o QuestionTexts(Tail(rs))
    ELSE QuestionTexts(Tail(rs))

\* C16: the window holds at most 6 texts, and they are the last min(6, n) of
\* the n question utterances routed so far, in arrival order (so an append to
\* a full window drops the oldest entry and nothing else).
C16_WindowBoundedFifo ==
    /\ Len(recent_questions) <= 6
    /\ recent_questions = LastEntries(QuestionTexts(routed), 6)

\* more than six questions were routed, with an answer among the utterances
C16_Witness ==
    /\ pipeline = "process_utterance"
    /\ Len(QuestionTexts(routed)) = 7
    /\ Len(routed) > 7
    /\ Len(recent_questions) = 6


\* the words of the ANSWER utterances routed so far, in arrival order
RECURSIVE AnswerWords(_)
AnswerWords(rs) ==
    IF rs = <<>> THEN <<>>
    ELSE IF Head(rs).role = "ANSWER"
    THEN split(strip(Head(rs).text)) \o AnswerWords(Tail(rs))
    ELSE AnswerWords(Tail(rs))

\* the words of the segments handed to process_chunk, in emission order
RECURSIVE SegmentWords(_)
SegmentWords(segs) ==
    IF segs = <<>> THEN <<>> ELSE split(Head(segs)) \o SegmentWords(Tail(segs))

\* C19: routing a QUESTION only appends its trimmed text to the window
\* (the oldest entry leaving a full window): ChunkBuffer with its last-activity
\* time, memory and emitted segments stay as they are and no process_chunk is
\* started.  Routing an ANSWER leaves the window as it is.  After every
\* routing step the words emitted in segments followed by the words pending
\* in the ChunkBuffer are the words of the ANSWER utterances and nothing
\* else, so no question text is in the ChunkBuffer or in a segment.
C19_RoutingFrame ==
    [][Len(routed') = Len(routed) + 1 =>
         LET r == routed'[Len(routed')]
         IN  /\ r.role = "QUESTION" =>
                   /\ recent_questions' =
                          LastEntries(Append(recent_questions, strip(r.text)), 6)
                   /\ answer_chunker' = answer_chunker
                   /\ memory' = memory
                   /\ segments' = segments
                   /\ pc' = pc
             /\ r.role = "ANSWER" => recent_questions' = recent_questions
             /\ SegmentWords(segments') \o Pending(answer_chunker'.buffer)
                   = AnswerWords(routed')]_vars

\* a question routed after an answer, some time after it, with a segment
\* emitted and words pending
C19_Witness ==
    /\ pipeline = "process_utterance"
    /\ Len(routed) >= 3
    /\ routed[Len(routed)].role = "QUESTION"
    /\ routed[Len(routed) - 1].role = "ANSWER"
    /\ pc[Main] = "next_paragraph"
    /\ segments # <<>>
    /\ answer_chunker.buffer # <<>>
    /\ clock > answer_chunker.last_activity_ts
    /\ recent_questions # <<>>


\* C20: the step that starts process_chunk puts into the extraction request
\* the last 3 entries of the window (all of them if it holds fewer), in window
\* order and joined by "; ", or the text "No recent questions" when the
\* window is empty, and leaves the window as it is.
C20_ExtractionContext ==
    [][\A t \in Coroutines :
          (pc'[t] = "extract" /\ pc[t] # "extract") =>
             /\ recent_questions' = recent_questions
             /\ frame'[t].recent_q_text =
                   IF recent_questions = <<>> THEN NoRecentQuestions
                   ELSE join_semicolon(LastEntries(recent_questions, 3))]_vars

\* an extraction call is outstanding whose request was built from a window of
\* more than three questions
C20_Witness ==
    /\ pipeline = "process_utterance"
    /\ pc[Main] = "extract"
    /\ Len(recent_questions) >= 4
    /\ frame[Main].recent_q_text = join_semicolon(LastEntries(recent_questions, 3))
    /\ frame[Main].recent_q_text # join_semicolon(recent_questions)


-----------------------------------------------------------------------------
(* Polling harness: run_capture after one ANSWER utterance has been        *)
(* handled at time 0, with the recognizer delivering nothing more and no   *)
(* Ctrl+C: what runs is the loop of lines 524-527, sleep(5) and idle_check *)
(* in turn.  The ChunkBuffer has any of the small configurations, so that  *)
(* an idle flush may retain a tail, as it does with the defaults           *)
(* (120/800/1100) whenever more than 120 words are pending.                *)

\* the utterance handled before the silence
PollingTexts == { <<"a">>, <<"b", " ", "c">>, <<"a", " ", "b", " ", "c">> }

InitPolling ==
    /\ clock = 0
    /\ calls = <<>>
    /\ MergeIdle
    /\ pipeline = "run_capture"
    /\ ENABLE_INTERVIEW_MODE = FALSE
    /\ ROLE_CLASSIFIER_MODE = "heuristic"
    /\ lock = LockNew
    /\ recent_questions = <<>>
    /\ recognizer = "started"
    /\ pc = [t \in Coroutines |->
               IF t = Main THEN "sleep" ELSE IF t = 1 THEN "done" ELSE "unborn"]
    /\ frame = [t \in Coroutines |-> FrameNew]
    /\ main_phase = "idle_check"
    /\ ready = <<>>
    /\ running = NoTask
    /\ awaiting = {}
    /\ loop = "open"
    /\ reads = {}
    /\ merge_steps = 0
    /\ force_flushes = 0
    /\ \E overlap \in 0..MaxOverlap, target \in 1..MaxTarget, text \in PollingTexts :
         \E tmax \in {target, target + 1} :
           LET r == add(ChunkBufferNew(overlap, target, tmax, 0), text, 0)
           IN  /\ answer_chunker = r.cb
               /\ delivered = <<text>>
               /\ routed = <<[text |-> text, role |-> "ANSWER", utterance |-> 1]>>
               /\ segments = IF Truthy(r.ret) THEN <<r.ret[1]>> ELSE <<>>

\* sleep(5) is over.  Nothing writes last_activity_ts in this harness, so
\* every clock reading past IDLE_FLUSH_SECONDS makes flush_if_idle decide the
\* same: the readings past MaxPipeClock are taken as MaxPipeClock
PollSleepElapsed(d) ==
    /\ loop = "open" /\ running = NoTask /\ pc[Main] = "sleep"
    /\ clock' = IF clock + d <= MaxPipeClock THEN clock + d ELSE MaxPipeClock
    /\ pc' = [pc EXCEPT ![Main] = "woken"]
    /\ ready' = Append(ready, Main)
    /\ UNCHANGED <<answer_chunker, calls, mergeVars, cfgVars, lock, recent_questions,
                   recognizer, delivered, running, frame, main_phase, awaiting, loop,
                   reads, routed, segments, merge_steps, force_flushes>>

NextPolling ==
    \/ \E d \in SleepDurations : PollSleepElapsed(d)
    \/ LoopRunMain
    \/ IdleCheck
    \/ \E resp \in ExtractResponses : ExtractReturn(Main, resp)
    \/ \E resp \in MergeResponses : MergeReturn(Main, resp)

\* the timer of sleep fires, the loop runs what is ready and every
\* completion call answers or raises in the end
SpecPolling == InitPolling /\ [][NextPolling]_vars /\ WF_vars(NextPolling)

\* C17: with the polling loop running and no further utterance, a non-empty
\* ChunkBuffer is empty in the end, and every word that was added (the
\* tail an idle flush retains included) is then in a segment handed to
\* process_chunk; unless the polling loop has ended with an exception.
C17_IdlePollingDrainsBuffer ==
    (answer_chunker.buffer # <<>>) ~>
        \/ pc[Main] = "crashed"
        \/ /\ answer_chunker.buffer = <<>>
           /\ SegmentWords(segments) = AnswerWords(routed)

\* two idle flushes have emptied the ChunkBuffer: the first retained a tail,
\* the second emitted it
C17_Witness ==
    /\ recognizer = "started" /\ pc[Main] = "sleep" /\ pc[1] = "done"
    /\ delivered # <<>> /\ approx_token_count(delivered[1]) < answer_chunker.token_target
    /\ Len(segments) = 2
    /\ answer_chunker.buffer = <<>>
    /\ SegmentWords(segments) = AnswerWords(routed)

====
